---- MODULE Spec2Model ----
(***************************************************************************)
(* Royal Mail label client (scripts/royalmail-client.ts): the session     *)
(* descriptor kept in /tmp/royalmail-session.json, the browser processes  *)
(* it refers to, and the public operations of RoyalMailClient, each taken *)
(* as one atomic invocation (invocations are serialized by the caller).   *)
(*                                                                         *)
(* Every awaited browser step may fault; an operation is modelled as the  *)
(* set of worlds it can end in, one per combination of step outcomes.     *)
(***************************************************************************)
EXTENDS Integers, Sequences, FiniteSets, TLC

VARIABLES desc, browsers, nextId, thisBrowser, last, probe

vars == <<desc, browsers, nextId, thisBrowser, last, probe>>

\* Number of browser processes that can be launched in one behaviour.
MaxBrowsers == 3

\* Number of second-stage confirmation controls one submit can click.
MaxConfirmClicks == 2

BrowserIds == 1..MaxBrowsers

\* SESSION_PATH does not exist.
NoDesc ==
  [exists |-> FALSE, wsEndpoint |-> 0, createdAt |-> 0,
   loggedIn |-> FALSE, formFilled |-> FALSE, labelGenerated |-> FALSE]

\* The object ensureBrowser writes after a launch (lines 191-200).
SessionInfo(ws, t) ==
  [exists |-> TRUE, wsEndpoint |-> ws, createdAt |-> t,
   loggedIn |-> FALSE, formFilled |-> FALSE, labelGenerated |-> FALSE]

\* this.browser = null
NoBrowser == [id |-> 0, launched |-> FALSE]

\* The world at the start of an invocation of op, and what the invocation
\* has done so far (its trace fields are copied into last when it ends).
Begin(op) ==
  [op |-> op, desc |-> desc, browsers |-> browsers, nextId |-> nextId,
   thisBrowser |-> thisBrowser,
   page |-> 0, formPage |-> 0, loginPage |-> 0,
   threw |-> FALSE, outcome |-> "running", shot |-> FALSE,
   touch |-> {}, clicks |-> <<>>,
   cold |-> FALSE, launched |-> 0,
   gate |-> "notReached", authRan |-> FALSE,
   preBrowser |-> IF desc.exists THEN browsers[desc.wsEndpoint] ELSE "none"]

Touch(s, what) == [s EXCEPT !.touch = @ \cup what]

----------------------------------------------------------------------------
\* ensureBrowser, lines 176-203: launch, newContext, newPage, save session.
launchBrowser(s) ==
  LET id == s.nextId
      s0 == [Touch(s, {"launch"}) EXCEPT !.cold = TRUE]
      up(st) == [s0 EXCEPT !.browsers[id] = st, !.nextId = id + 1,
                           !.thisBrowser = [id |-> id, launched |-> TRUE],
                           !.launched = @ + 1]
      launchThrows == [s0 EXCEPT !.threw = TRUE]
      pageThrows == [up("nopages") EXCEPT !.threw = TRUE]
      noEndpoint == [up("live") EXCEPT !.page = id]
      saved == [up("live") EXCEPT !.page = id, !.desc = SessionInfo(id, id)]
  IN  IF id > MaxBrowsers
      THEN {launchThrows}
      ELSE {launchThrows, pageThrows, noEndpoint, saved}

\* ensureBrowser, lines 151-204.
ensureBrowser(s) ==
  LET ws == s.desc.wsEndpoint
      st == IF s.desc.exists THEN s.browsers[ws] ELSE "none"
      s1 == IF s.desc.exists THEN Touch(s, {"connect"}) ELSE s
      conn == [s1 EXCEPT !.thisBrowser = [id |-> ws, launched |-> FALSE]]
  IN  CASE st = "live" -> {[conn EXCEPT !.page = ws]}
        [] st = "nopages" -> launchBrowser(conn)
        [] st = "dead" ->
             \* connectOverCDP throws; unlinkSync succeeds or throws (ignored)
             launchBrowser([s1 EXCEPT !.desc = NoDesc]) \cup launchBrowser(s1)
        [] OTHER -> launchBrowser(s1)

\* The three progress flags of SessionInfo (lines 59-61).
Flags == {"loggedIn", "formFilled", "labelGenerated"}

\* updateSession written so that the file holds the updates alone.
updateSessionReplacing(d, updates) ==
  IF d.exists
  THEN [f \in DOMAIN d |->
          IF f \in DOMAIN updates THEN updates[f]
          ELSE IF f \in Flags THEN FALSE ELSE d[f]]
  ELSE d

\* updateSession, lines 206-212; updates is a function from field names.
updateSession(d, updates) ==
  IF d.exists
  THEN [f \in DOMAIN d |-> IF f \in DOMAIN updates THEN updates[f] ELSE d[f]]
  ELSE d

----------------------------------------------------------------------------
\* One click found by an ordered selector loop (page.$ then click): either
\* a control matched and was clicked, or none matched / the fault was
\* swallowed by the loop's inner catch.
Click(s, kind) ==
  [Touch(s, {"query", "click"}) EXCEPT !.clicks = Append(@, kind)]

NoClick(s) == Touch(s, {"query"})

Throw(s) == [s EXCEPT !.threw = TRUE]

\* login, lines 234-339: the authentication sequence.
authenticate(s) ==
  LET a0 == [Touch(s, {"goto"}) EXCEPT !.authRan = TRUE]
      shot == Touch(a0, {"wait", "screenshot"})
      filled == Touch(shot, {"query", "fill"})
      clicked == {Click(filled, "login"), NoClick(filled)}
      done(c) == [Touch(c, {"wait"}) EXCEPT
                    !.desc = updateSession(@, [loggedIn |-> TRUE])]
  IN  {Throw(a0)}                              \* goto(LOGIN_URL) faults
        \cup {Throw(shot)}                     \* screenshot faults
        \cup {Throw(Touch(shot, {"query"}))}   \* a login field is not found
        \cup {Throw(Touch(c, {"wait"})) : c \in clicked}  \* still on login
        \cup {done(c) : c \in clicked}

\* login, lines 214-340, after its own page acquisition.
loginBody(s) ==
  IF s.desc.exists /\ s.desc.loggedIn
  THEN {Touch(s, {"goto"})}                    \* verified: return true
         \cup authenticate(Touch(s, {"goto"})) \* redirected, or goto faulted
  ELSE authenticate(s)

\* login, lines 214-340.
login(s) ==
  UNION { IF r.threw THEN {r} ELSE loginBody([r EXCEPT !.loginPage = r.page])
          : r \in ensureBrowser(s) }

\* createLabel, lines 459-467: the catch block.
createLabelCatch(s) ==
  LET c == [Touch(s, {"screenshot"}) EXCEPT !.threw = FALSE]
  IN  {[c EXCEPT !.outcome = "error", !.shot = TRUE],
       [c EXCEPT !.outcome = "threw"]}

\* fillForm with formFilled written before the preview capture.
fillFormEarly(s) ==
  LET nav == Touch(s, {"goto"})
      shot1 == Touch(nav, {"wait", "screenshot"})
      fields == Touch(shot1, {"query", "fill"})
      service == {[v EXCEPT !.desc = updateSession(@, [formFilled |-> TRUE])]
                  : v \in {Click(fields, "service"), NoClick(fields)}}
      ok(v) == [Touch(v, {"screenshot"}) EXCEPT !.outcome = "success"]
  IN  createLabelCatch(nav) \cup createLabelCatch(shot1)
        \cup UNION {createLabelCatch(Touch(v, {"screenshot"})) : v \in service}
        \cup {ok(v) : v \in service}

\* fillForm that goes on to press the form's continue button once the
\* fields are filled.
fillFormContinue(s) ==
  LET nav == Touch(s, {"goto"})
      shot1 == Touch(nav, {"wait", "screenshot"})
      fields == Touch(shot1, {"query", "fill"})
      service == {Click(v, "submit")
                  : v \in {Click(fields, "service"), NoClick(fields)}}
      ok(v) == [Touch(v, {"screenshot"}) EXCEPT
                  !.desc = updateSession(@, [formFilled |-> TRUE]),
                  !.outcome = "success"]
  IN  createLabelCatch(nav) \cup createLabelCatch(shot1)
        \cup UNION {createLabelCatch(Touch(v, {"screenshot"})) : v \in service}
        \cup {ok(v) : v \in service}

\* createLabel, lines 377-458: navigation, fields, service, preview.
fillForm(s) ==
  LET nav == Touch(s, {"goto"})
      shot1 == Touch(nav, {"wait", "screenshot"})
      fields == Touch(shot1, {"query", "fill"})
      service == {Click(fields, "service"), NoClick(fields)}
      ok(v) == [Touch(v, {"screenshot"}) EXCEPT
                  !.desc = updateSession(@, [formFilled |-> TRUE]),
                  !.outcome = "success", !.shot = TRUE]
  IN  createLabelCatch(nav) \cup createLabelCatch(shot1)
        \cup UNION {createLabelCatch(Touch(v, {"screenshot"})) : v \in service}
        \cup {ok(v) : v \in service}

\* createLabel, lines 370-468.
createLabel(s) ==
  UNION { IF r.threw
          THEN {[r EXCEPT !.outcome = "threw"]}
          ELSE UNION { IF l.threw THEN createLabelCatch(l) ELSE fillForm(l)
                       : l \in login([r EXCEPT !.formPage = r.page]) }
          : r \in ensureBrowser(s) }

----------------------------------------------------------------------------
\* A check that lets every existing descriptor pass.
GateOpen(d, flag) ==
  IF ~d.exists THEN "noDesc" ELSE "flagTrue"

\* The precondition checks of submit (613-622) and downloadLabel (769-778):
\* what the check read from SESSION_PATH.
Gate(d, flag) ==
  IF ~d.exists THEN "noDesc" ELSE IF d[flag] THEN "flagTrue" ELSE "flagFalse"

\* submit/downloadLabel catch blocks, lines 696-704 and 829-837.
opCatch(s) ==
  LET c == Touch(s, {"screenshot"})
  IN  {[c EXCEPT !.outcome = "error", !.shot = TRUE],
       [c EXCEPT !.outcome = "threw"]}

RECURSIVE confirmClicks(_, _)
\* submit, lines 666-678: k controls clicked by the confirm loop (a fault in
\* the wait after a click is swallowed and the loop goes on).
confirmClicks(s, k) ==
  IF k = 0 THEN NoClick(s)
  ELSE Touch(Click(confirmClicks(s, k - 1), "confirm"), {"wait"})

\* submitBody with labelGenerated written right after the first click.
submitBodyEarly(s) ==
  LET first == {[f EXCEPT !.desc = updateSession(@, [labelGenerated |-> TRUE])]
                : f \in {Click(s, "submit"), NoClick(s)}}
      review == {Touch(f, {"wait", "screenshot"}) : f \in first}
      second == {confirmClicks(r, k) : r \in review, k \in 0..MaxConfirmClicks}
      ok(c) == [Touch(c, {"screenshot", "evaluate"}) EXCEPT !.outcome = "success"]
  IN  UNION {opCatch(Touch(f, {"wait"})) : f \in first}
        \cup UNION {opCatch(r) : r \in review}
        \cup UNION {opCatch(Touch(c, {"screenshot"})) : c \in second}
        \cup {ok(c) : c \in second}

\* submitBody that consumes formFilled when it sets labelGenerated.
submitBodyConsuming(s) ==
  LET first == {Click(s, "submit"), NoClick(s)}
      review == {Touch(f, {"wait", "screenshot"}) : f \in first}
      second == {confirmClicks(r, k) : r \in review, k \in 0..MaxConfirmClicks}
      ok(c) == [Touch(c, {"screenshot", "evaluate"}) EXCEPT
                  !.desc = updateSession(@, [labelGenerated |-> TRUE,
                                             formFilled |-> FALSE]),
                  !.outcome = "success", !.shot = TRUE]
  IN  UNION {opCatch(Touch(f, {"wait"})) : f \in first}
        \cup UNION {opCatch(r) : r \in review}
        \cup UNION {opCatch(Touch(c, {"screenshot"})) : c \in second}
        \cup {ok(c) : c \in second}

\* submit, lines 624-704.
submitBody(s) ==
  LET first == {Click(s, "submit"), NoClick(s)}
      review == {Touch(f, {"wait", "screenshot"}) : f \in first}
      second == {confirmClicks(r, k) : r \in review, k \in 0..MaxConfirmClicks}
      ok(c) == [Touch(c, {"screenshot", "evaluate"}) EXCEPT
                  !.desc = updateSession(@, [labelGenerated |-> TRUE]),
                  !.outcome = "success", !.shot = TRUE]
  IN  UNION {opCatch(Touch(f, {"wait"})) : f \in first}
        \cup UNION {opCatch(r) : r \in review}
        \cup UNION {opCatch(Touch(c, {"screenshot"})) : c \in second}
        \cup {ok(c) : c \in second}

\* submit, lines 610-705.
submit(s) ==
  UNION { IF r.threw
          THEN {[r EXCEPT !.outcome = "threw"]}
          ELSE LET g == [r EXCEPT !.gate = Gate(r.desc, "formFilled")]
               IN  IF g.gate = "flagFalse"
                   THEN {[g EXCEPT !.outcome = "precond"]}
                   ELSE submitBody(g)
          : r \in ensureBrowser(s) }

\* downloadLabel, lines 780-837.
downloadBody(s) ==
  LET armed == Touch(s, {"listen"})
      clicked == {Click(armed, "download"), NoClick(armed)}
      got == {Touch(c, {"wait"}) : c \in clicked}
  IN  UNION {opCatch(g) : g \in got}             \* timeout, or saveAs faults
        \cup {[Touch(g, {"save"}) EXCEPT !.outcome = "success"] : g \in got}

\* downloadLabel, lines 766-838.
downloadLabel(s) ==
  UNION { IF r.threw
          THEN {[r EXCEPT !.outcome = "threw"]}
          ELSE LET g == [r EXCEPT !.gate = Gate(r.desc, "labelGenerated")]
               IN  IF g.gate = "flagFalse"
                   THEN {[g EXCEPT !.outcome = "precond"]}
                   ELSE downloadBody(g)
          : r \in ensureBrowser(s) }

\* takeScreenshot, lines 872-887.
takeScreenshot(s) ==
  UNION { IF r.threw
          THEN {[r EXCEPT !.outcome = "threw"]}
          ELSE {[Touch(r, {"screenshot"}) EXCEPT !.outcome = "success",
                                                 !.shot = TRUE],
                [Touch(r, {"screenshot"}) EXCEPT !.outcome = "threw"]}
          : r \in ensureBrowser(s) }

\* reset, lines 900-923.
reset(s) ==
  LET b == s.thisBrowser
      closeFails == [Touch(s, {"close"}) EXCEPT !.outcome = "error"]
      killed == [Touch(s, {"close"}) EXCEPT !.browsers[b.id] = "dead",
                                            !.thisBrowser = NoBrowser]
      \* closing a browser this process only connected to disconnects from it
      left == [Touch(s, {"close"}) EXCEPT !.thisBrowser = NoBrowser]
      closed == IF b.id = 0 THEN {s}
                ELSE IF b.launched THEN {killed} ELSE {killed, left}
      unlink(c) == IF c.desc.exists
                   THEN {[c EXCEPT !.desc = NoDesc, !.outcome = "success"],
                         [c EXCEPT !.outcome = "error"]}
                   ELSE {[c EXCEPT !.outcome = "success"]}
  IN  (IF b.id = 0 THEN {} ELSE {closeFails})
        \cup UNION {unlink(c) : c \in closed}

----------------------------------------------------------------------------
\* What last keeps of a finished invocation.
Trace(r) ==
  [n |-> 1 - last.n, op |-> r.op, outcome |-> r.outcome, shot |-> r.shot,
   touch |-> r.touch, clicks |-> r.clicks,
   cold |-> r.cold, launched |-> r.launched,
   gate |-> r.gate, authRan |-> r.authRan,
   page |-> r.page, formPage |-> r.formPage, loginPage |-> r.loginPage,
   preBrowser |-> r.preBrowser]

\* No pure function is under evaluation.
Idle == [fn |-> "none"]

Commit(r) ==
  /\ desc' = r.desc
  /\ browsers' = r.browsers
  /\ nextId' = r.nextId
  /\ thisBrowser' = r.thisBrowser
  /\ last' = Trace(r)
  /\ UNCHANGED probe

Init ==
  /\ desc = NoDesc
  /\ browsers = [b \in BrowserIds |-> "none"]
  /\ nextId = 1
  /\ thisBrowser = NoBrowser
  /\ probe = Idle
  /\ last = [n |-> 0, op |-> "none", outcome |-> "none", shot |-> FALSE,
             touch |-> {}, clicks |-> <<>>,
             cold |-> FALSE, launched |-> 0,
             gate |-> "notReached", authRan |-> FALSE,
             page |-> 0, formPage |-> 0, loginPage |-> 0,
             preBrowser |-> "none"]

\* cli: create-label
CreateLabel == \E r \in createLabel(Begin("createLabel")) : Commit(r)

\* cli: submit
Submit == \E r \in submit(Begin("submit")) : Commit(r)

\* cli: download-label
DownloadLabel == \E r \in downloadLabel(Begin("downloadLabel")) : Commit(r)

\* cli: screenshot
TakeScreenshot == \E r \in takeScreenshot(Begin("takeScreenshot")) : Commit(r)

\* cli: reset
Reset == \E r \in reset(Begin("reset")) : Commit(r)

\* Each CLI command runs in a new process, whose client starts with
\* this.browser = null (line 125).
NewProcess ==
  /\ thisBrowser # NoBrowser
  /\ thisBrowser' = NoBrowser
  /\ UNCHANGED <<desc, browsers, nextId, last, probe>>

\* A browser process ends between invocations.
BrowserDies ==
  \E b \in BrowserIds :
    /\ browsers[b] \in {"live", "nopages"}
    /\ browsers' = [browsers EXCEPT ![b] = "dead"]
    /\ UNCHANGED <<desc, nextId, thisBrowser, last, probe>>

\* The last page of a running browser is closed between invocations.
PagesClosed ==
  \E b \in BrowserIds :
    /\ browsers[b] = "live"
    /\ browsers' = [browsers EXCEPT ![b] = "nopages"]
    /\ UNCHANGED <<desc, nextId, thisBrowser, last, probe>>

Next ==
  \/ CreateLabel
  \/ Submit
  \/ DownloadLabel
  \/ TakeScreenshot
  \/ Reset
  \/ NewProcess
  \/ BrowserDies
  \/ PagesClosed

Spec == Init /\ [][Next]_vars

\* This step is an invocation of a public operation.
Invoked(op) == last'.n # last.n /\ last'.op = op

----------------------------------------------------------------------------
\* The invocation recorded in l got past its precondition check: it went on
\* to look for its controls.
PastGate(l) ==
  \/ l.op = "submit" /\ "query" \in l.touch
  \/ l.op = "downloadLabel" /\ "listen" \in l.touch

\* Some flag that was true before this step is not true after it.
Lowered(f) == desc[f] /\ ~desc'[f]

\* Some flag that was not true before this step is true after it.
Advanced(f) == ~desc[f] /\ desc'[f]

\* C1: submit on a descriptor with formFilled=false, and downloadLabel on a
\* descriptor with labelGenerated=false, return the precondition failure and
\* perform no browser interaction at all.
C1_PreconditionWithoutBrowser ==
  [][ ( \/ Invoked("submit") /\ desc.exists /\ ~desc.formFilled
        \/ Invoked("downloadLabel") /\ desc.exists /\ ~desc.labelGenerated )
      => last'.outcome = "precond" /\ last'.touch = {} ]_vars

\* C2: a submit or downloadLabel invocation that returns the precondition
\* failure leaves the descriptor file exactly as it was.
C2_PreconditionLeavesDescriptor ==
  [][ (Invoked("submit") \/ Invoked("downloadLabel")) /\ last'.outcome = "precond"
      => desc' = desc ]_vars

\* C3: submit and downloadLabel get past their precondition check only if a
\* descriptor exists at the check and shows the flag true.
C3_GateNeedsDescriptor ==
  PastGate(last) => last.gate = "flagTrue"

\* C4: an invocation other than submit, createLabel in particular, clicks no
\* control of the submit or confirm candidate lists and never sets
\* labelGenerated.
C4_FillNeverSubmits ==
  [][ last'.n # last.n /\ last'.op # "submit"
      => /\ \A i \in DOMAIN last'.clicks : last'.clicks[i] \notin {"submit", "confirm"}
         /\ ~Advanced("labelGenerated") ]_vars

\* C4 witness: a createLabel that ran the whole fill sequence, clicking the
\* login and service controls, and advanced formFilled only.
C4_Witness ==
  /\ last.op = "createLabel" /\ last.outcome = "success"
  /\ last.clicks = <<"login", "service">>
  /\ desc.formFilled /\ ~desc.labelGenerated

\* C5: page acquisition that starts on a descriptor of a dead browser ends
\* with the descriptor absent or replaced by a fresh one for the browser just
\* launched.
C5_DeadHandleReplaced ==
  [][ /\ last'.n # last.n /\ last'.op = "takeScreenshot" /\ last'.page # 0
      /\ desc.exists /\ browsers[desc.wsEndpoint] = "dead"
      => desc' \in {NoDesc, SessionInfo(last'.page, last'.page)} ]_vars

\* C6: after every cold start that returns a page, the descriptor exists,
\* references the browser just launched and has all flags false.
C6_ColdStartPersists ==
  last.op \in {"takeScreenshot", "submit", "downloadLabel"} /\ last.cold /\ last.page # 0
    => desc = SessionInfo(last.page, last.page)

\* C7 as claimed: no invocation other than reset turns a flag that is true
\* in the descriptor into false.
C7_FlagsMonotonic ==
  [][ last'.n # last.n /\ last'.op # "reset" /\ desc'.exists
      => \A f \in Flags : ~Lowered(f) ]_vars

\* C7 amended: a flag that is true stops being true only in a reset or in an
\* invocation whose page acquisition cold-started; as long as the descriptor
\* keeps its connection handle its flags never go back and its createdAt
\* stays.
C7_FlagsMonotonicPerSession ==
  [][ /\ (\E f \in Flags : Lowered(f))
         => last'.n # last.n /\ (last'.op = "reset" \/ last'.cold)
      /\ desc.exists /\ desc'.exists /\ desc'.wsEndpoint = desc.wsEndpoint
         => /\ \A f \in Flags : ~Lowered(f)
            /\ desc'.createdAt = desc.createdAt ]_vars

\* C7 witness: a submit that reconnected to the session of an earlier
\* createLabel and advanced labelGenerated with the earlier flags kept.
C7_Witness ==
  /\ last.op = "submit" /\ last.outcome = "success" /\ ~last.cold
  /\ desc.loggedIn /\ desc.formFilled /\ desc.labelGenerated

\* C8: with the browser alive in between, a submit that follows a successful
\* createLabel reads formFilled=true, and a downloadLabel that follows a
\* successful submit reads labelGenerated=true.
C8_LaterInvocationSeesFlags ==
  [][ /\ last.outcome = "success" /\ last.page # 0
      /\ browsers[last.page] = "live"
      /\ last.op = "createLabel" => browsers[last.formPage] = "live"
      /\ \/ last.op = "createLabel" /\ Invoked("submit")
         \/ last.op = "submit" /\ Invoked("downloadLabel")
      /\ last'.outcome # "threw"
      => last'.gate = "flagTrue" ]_vars

\* C9 as claimed: a createLabel that fails leaves formFilled as it was, and
\* formFilled is advanced only by a createLabel that returns success.
C9_FailedFillKeepsFormFilled ==
  [][ /\ Invoked("createLabel") /\ last'.outcome = "error" /\ desc'.exists
         => desc'.formFilled = desc.formFilled
      /\ Advanced("formFilled")
         => Invoked("createLabel") /\ last'.outcome = "success" ]_vars

\* C9 amended: a createLabel that fails never advances formFilled, and leaves
\* it as it was unless its page acquisition cold-started; formFilled is
\* advanced only by a createLabel that returns success.
C9_FailedFillNeverAdvances ==
  [][ /\ Invoked("createLabel") /\ last'.outcome \in {"error", "threw"}
         => /\ ~Advanced("formFilled")
            /\ ~last'.cold => desc'.formFilled = desc.formFilled
      /\ Advanced("formFilled")
         => Invoked("createLabel") /\ last'.outcome = "success" ]_vars

\* C9 witness: a createLabel that authenticated, advanced loggedIn, and then
\* failed in a later step of the fill sequence.
C9_Witness ==
  /\ last.op = "createLabel" /\ last.outcome = "error"
  /\ last.authRan /\ "fill" \in last.touch
  /\ desc.loggedIn /\ ~desc.formFilled

----------------------------------------------------------------------------
\* C11: no fault escapes a public operation: every invocation of createLabel,
\* submit, downloadLabel, takeScreenshot and reset ends with a structured
\* result, never by throwing to the caller.
C11_NoFaultEscapes ==
  last.op \in {"createLabel", "submit", "downloadLabel", "takeScreenshot", "reset"}
    => last.outcome # "threw"

\* C12: every result with error=true returned by createLabel, submit,
\* downloadLabel or reset carries a diagnostic screenshot path.
C12_ErrorsCarryScreenshot ==
  last.op \in {"createLabel", "submit", "downloadLabel", "reset"}
    /\ last.outcome \in {"error", "precond"}
    => last.shot

\* C13: a reset that returns success in a fresh process, on a descriptor that
\* references a live browser, leaves that browser no longer running and the
\* descriptor absent.
C13_ResetEndsBrowser ==
  [][ /\ Invoked("reset") /\ last'.outcome = "success"
      /\ thisBrowser = NoBrowser
      /\ desc.exists /\ browsers[desc.wsEndpoint] = "live"
      => ~desc'.exists /\ browsers'[desc.wsEndpoint] = "dead" ]_vars

\* C14: after every reset invocation the descriptor is absent, and a reset
\* that directly follows a reset returns success and changes nothing.
C14_ResetAlwaysClears ==
  [][ /\ Invoked("reset") => ~desc'.exists
      /\ Invoked("reset") /\ last.op = "reset"
         => last'.outcome = "success" /\ desc' = desc /\ browsers' = browsers ]_vars

\* C20: page acquisition that reconnects to a browser with no open page
\* leaves no descriptor that carries the old connection handle.
C20_NoPagesDescriptorDropped ==
  [][ /\ last'.n # last.n /\ last'.op # "reset" /\ last'.page # 0
      /\ desc.exists /\ browsers[desc.wsEndpoint] = "nopages"
      => ~(desc'.exists /\ desc'.wsEndpoint = desc.wsEndpoint) ]_vars

----------------------------------------------------------------------------
(***************************************************************************)
(* Text helpers.  A text is a sequence of one-character strings; a regular *)
(* expression is a sequence of items, each a character class with a        *)
(* repetition range.  In every expression of the client the class of a     *)
(* repeated item is disjoint from what may follow it, so that greedy       *)
(* matching without backtracking is what String.prototype.match computes.  *)
(***************************************************************************)
UpperLetters ==
  <<"A", "B", "C", "D", "E", "F", "G", "H", "I", "J", "K", "L", "M",
    "N", "O", "P", "Q", "R", "S", "T", "U", "V", "W", "X", "Y", "Z">>

LowerLetters ==
  <<"a", "b", "c", "d", "e", "f", "g", "h", "i", "j", "k", "l", "m",
    "n", "o", "p", "q", "r", "s", "t", "u", "v", "w", "x", "y", "z">>

Range(q) == {q[i] : i \in DOMAIN q}

\* [A-Z]
AZ == Range(UpperLetters)

\* \d
Digit == {"0", "1", "2", "3", "4", "5", "6", "7", "8", "9"}

\* \s
WhiteSpace == {" ", "\t", "\n"}

\* Case folding of the i flag.
Fold(c) ==
  IF c \in AZ
  THEN LowerLetters[CHOOSE i \in DOMAIN UpperLetters : UpperLetters[i] = c]
  ELSE c

\* One item of an expression: between lo and hi characters of cls (hi = 0:
\* no upper limit); cap: the item lies inside the capture group; ci: the
\* expression has the i flag.
Item(cls, lo, hi, cap, ci) ==
  [cls |-> cls, lo |-> lo, hi |-> hi, cap |-> cap, ci |-> ci]

\* The characters of a literal word, one item each.
Word(w, ci) == [i \in DOMAIN w |-> Item({w[i]}, 1, 1, FALSE, ci)]

Accepts(item, c) ==
  IF item.ci THEN Fold(c) \in {Fold(x) : x \in item.cls} ELSE c \in item.cls

RECURSIVE Run(_, _, _, _)
\* The number of characters from pos on that item takes, n taken so far.
Run(text, pos, item, n) ==
  IF pos + n <= Len(text) /\ (item.hi = 0 \/ n < item.hi)
     /\ Accepts(item, text[pos + n])
  THEN Run(text, pos, item, n + 1)
  ELSE n

NoMatch == [matched |-> FALSE, capture |-> <<>>]

RECURSIVE MatchItems(_, _, _, _, _, _)
\* The items k.. of re matched at pos; from..to is the capture so far.
MatchItems(text, pos, re, k, from, to) ==
  IF k > Len(re)
  THEN [matched |-> TRUE, capture |-> SubSeq(text, from, to)]
  ELSE LET n == Run(text, pos, re[k], 0)
       IN  IF n < re[k].lo
           THEN NoMatch
           ELSE IF re[k].cap
                THEN MatchItems(text, pos + n, re, k + 1,
                                IF from = 0 THEN pos ELSE from, pos + n - 1)
                ELSE MatchItems(text, pos + n, re, k + 1, from, to)

RECURSIVE SearchFrom(_, _, _)
\* text.match(re) without the g flag: the leftmost match.
SearchFrom(text, re, start) ==
  IF start > Len(text)
  THEN NoMatch
  ELSE LET m == MatchItems(text, start, re, 1, 0, 0)
       IN  IF m.matched THEN m ELSE SearchFrom(text, re, start + 1)

Match(text, re) == SearchFrom(text, re, 1)

\* undefined
Absent == [present |-> FALSE, value |-> <<>>]

Some(v) == [present |-> TRUE, value |-> v]

RECURSIVE FirstMatch(_, _, _)
\* for (const pattern of patterns) { match = text.match(pattern); if (match)
\* { ...match[1]; break } }
FirstMatch(text, patterns, k) ==
  IF k > Len(patterns)
  THEN Absent
  ELSE LET m == Match(text, patterns[k])
       IN  IF m.matched THEN Some(m.capture)
           ELSE FirstMatch(text, patterns, k + 1)

\* ([A-Z]{2}\d{9}GB)
TrackingCode(ci) ==
  <<Item(AZ, 2, 2, TRUE, ci), Item(Digit, 9, 9, TRUE, ci),
    Item({"G"}, 1, 1, TRUE, ci), Item({"B"}, 1, 1, TRUE, ci)>>

\* [:\s#]*
LabelGap == <<Item({":", "#"} \cup WhiteSpace, 0, 0, FALSE, TRUE)>>

\* trackingPatterns with the bare code tried before the labelled ones.
trackingPatternsBareFirst ==
  << TrackingCode(FALSE),
     Word(<<"T", "r", "a", "c", "k", "i", "n", "g">>, TRUE)
       \o LabelGap \o TrackingCode(TRUE),
     Word(<<"R", "e", "f", "e", "r", "e", "n", "c", "e">>, TRUE)
       \o LabelGap \o TrackingCode(TRUE),
     Word(<<"B", "a", "r", "c", "o", "d", "e">>, TRUE)
       \o LabelGap \o <<Item(Digit, 1, 0, TRUE, TRUE)>> >>

\* extractConfirmation, lines 713-718.
trackingPatterns ==
  << Word(<<"T", "r", "a", "c", "k", "i", "n", "g">>, TRUE)
       \o LabelGap \o TrackingCode(TRUE),
     Word(<<"R", "e", "f", "e", "r", "e", "n", "c", "e">>, TRUE)
       \o LabelGap \o TrackingCode(TRUE),
     TrackingCode(FALSE),
     Word(<<"B", "a", "r", "c", "o", "d", "e">>, TRUE)
       \o LabelGap \o <<Item(Digit, 1, 0, TRUE, TRUE)>> >>

\* [:\s]*[£\$]?([\d.,]+)
Amount ==
  << Item({":"} \cup WhiteSpace, 0, 0, FALSE, TRUE),
     Item({"£", "$"}, 0, 1, FALSE, TRUE),
     Item(Digit \cup {".", ","}, 1, 0, TRUE, TRUE) >>

\* costPatterns with the bare amount tried first.
costPatternsBareFirst ==
  << <<Item({"£"}, 1, 1, FALSE, FALSE),
       Item(Digit \cup {".", ","}, 1, 0, TRUE, FALSE)>>,
     Word(<<"T", "o", "t", "a", "l">>, TRUE) \o Amount,
     Word(<<"C", "o", "s", "t">>, TRUE) \o Amount,
     Word(<<"P", "r", "i", "c", "e">>, TRUE) \o Amount >>

\* extractConfirmation, lines 730-735.
costPatterns ==
  << Word(<<"T", "o", "t", "a", "l">>, TRUE) \o Amount,
     Word(<<"C", "o", "s", "t">>, TRUE) \o Amount,
     Word(<<"P", "r", "i", "c", "e">>, TRUE) \o Amount,
     <<Item({"£"}, 1, 1, FALSE, FALSE),
       Item(Digit \cup {".", ","}, 1, 0, TRUE, FALSE)>> >>

\* extractConfirmation, lines 710-746: the function evaluated in the page.
extractFromText(text) ==
  LET tracking == FirstMatch(text, trackingPatterns, 1)
      amount == FirstMatch(text, costPatterns, 1)
  IN  [trackingNumber |-> tracking,
       cost |-> IF amount.present THEN Some(<<"£">> \o amount.value)
                ELSE Absent]

\* extractConfirmation, lines 707-751: page.evaluate may fault.
extractConfirmation(text, faulted) ==
  IF faulted
  THEN [trackingNumber |-> Absent, cost |-> Absent]
  ELSE extractFromText(text)

----------------------------------------------------------------------------
(***************************************************************************)
(* The confirmation extractor on its own: the page text is built from a    *)
(* few fragments, and page.evaluate either runs the function or faults.    *)
(***************************************************************************)
MaxSegs == 3

\* Fragments of a confirmation page that bear on the tracking number.
TrackingSegs ==
  { <<"T", "r", "a", "c", "k", "i", "n", "g", ":", " ", "A", "B", "1", "2", "3", "4", "5", "6", "7", "8", "9", "G", "B">>,
    <<"T", "r", "a", "c", "k", "i", "n", "g">>,
    <<":", " ">>,
    <<"-">>,
    <<"C", "D", "9", "8", "7", "6", "5", "4", "3", "2", "1", "G", "B">>,
    <<"e", "f", "1", "1", "1", "1", "1", "1", "1", "1", "1", "g", "b">>,
    <<"R", "e", "f", "e", "r", "e", "n", "c", "e">>,
    <<"B", "a", "r", "c", "o", "d", "e">>,
    <<"1", "2", "3", "4", "5">> }

\* Fragments of a confirmation page that bear on the cost.
CostSegs ==
  { <<"T", "o", "t", "a", "l", ":", " ", "£", "1", "2", ".", "3", "4">>,
    <<"T", "o", "t", "a", "l">>,
    <<"C", "o", "s", "t">>,
    <<"P", "r", "i", "c", "e">>,
    <<":", " ">>,
    <<"$">>,
    <<"£">>,
    <<"5", ".", "0", "0">>,
    <<",">>,
    <<"A", "B", "1", "2", "3", "4", "5", "6", "7", "8", "9", "G", "B">> }

RECURSIVE Concat(_)
Concat(q) == IF q = <<>> THEN <<>> ELSE Head(q) \o Concat(Tail(q))

\* document.body.innerText: up to MaxSegs fragments of segs in a row.
TextsOf(segs) ==
  {Concat(q) : q \in UNION {[1..n -> segs] : n \in 0..MaxSegs}}

Texts == TextsOf(TrackingSegs) \cup TextsOf(CostSegs)

\* The client as constructed, before any operation.
Constructed ==
  /\ desc = NoDesc
  /\ browsers = [b \in BrowserIds |-> "none"]
  /\ nextId = 1
  /\ thisBrowser = NoBrowser
  /\ last = [n |-> 0, op |-> "none", outcome |-> "none", shot |-> FALSE,
             touch |-> {}, clicks |-> <<>>,
             cold |-> FALSE, launched |-> 0,
             gate |-> "notReached", authRan |-> FALSE,
             page |-> 0, formPage |-> 0, loginPage |-> 0,
             preBrowser |-> "none"]

ExtractInit ==
  /\ Constructed
  /\ probe \in {[fn |-> "extractConfirmation", text |-> t, faulted |-> f,
                 done |-> FALSE,
                 out |-> [trackingNumber |-> Absent, cost |-> Absent]]
                  : t \in Texts, f \in BOOLEAN}

Extract ==
  /\ probe.fn = "extractConfirmation"
  /\ ~probe.done
  /\ probe' = [probe EXCEPT
                 !.done = TRUE,
                 !.out = extractConfirmation(probe.text, probe.faulted)]
  /\ UNCHANGED <<desc, browsers, nextId, thisBrowser, last>>

ExtractSpec == ExtractInit /\ [][Extract]_vars

----------------------------------------------------------------------------
(***************************************************************************)
(* The extraction rules read as statements about the text, without the     *)
(* matcher.                                                                *)
(***************************************************************************)
Least(S) == CHOOSE i \in S : \A j \in S : i <= j

\* The word w, in either case, stands at position i.
LabelAt(text, i, w) ==
  /\ i + Len(w) - 1 <= Len(text)
  /\ \A k \in DOMAIN w : Fold(text[i + k - 1]) = Fold(w[k])

\* The first position from i on that holds no character of gap.
GapEnd(text, i, gap) ==
  CHOOSE j \in i..(Len(text) + 1) :
    /\ \A k \in i..(j - 1) : text[k] \in gap
    /\ j = Len(text) + 1 \/ text[j] \notin gap

\* Two letters, nine digits and GB stand at position j.
CodeAt(text, j, anyCase) ==
  /\ j + 12 <= Len(text)
  /\ \A k \in 0..1 :
       IF anyCase THEN Fold(text[j + k]) \in Range(LowerLetters)
       ELSE text[j + k] \in AZ
  /\ \A k \in 2..10 : text[j + k] \in Digit
  /\ IF anyCase
     THEN Fold(text[j + 11]) = "g" /\ Fold(text[j + 12]) = "b"
     ELSE text[j + 11] = "G" /\ text[j + 12] = "B"

\* The run of characters of cls that starts at j.
RunAt(text, j, cls) == SubSeq(text, j, GapEnd(text, j, cls) - 1)

TrackingGap == {":", "#"} \cup WhiteSpace

\* Where a code labelled w starts: the positions of the label.
LabelledCodes(text, w) ==
  {i \in 1..Len(text) :
     /\ LabelAt(text, i, w)
     /\ CodeAt(text, GapEnd(text, i + Len(w), TrackingGap), TRUE)}

FirstLabelledCode(text, w) ==
  LET i == Least(LabelledCodes(text, w))
      j == GapEnd(text, i + Len(w), TrackingGap)
  IN  SubSeq(text, j, j + 12)

BareCodes(text) == {j \in 1..Len(text) : CodeAt(text, j, FALSE)}

LabelledDigits(text, w) ==
  {i \in 1..Len(text) :
     /\ LabelAt(text, i, w)
     /\ LET j == GapEnd(text, i + Len(w), TrackingGap)
        IN  j <= Len(text) /\ text[j] \in Digit}

TrackingWord == <<"T", "r", "a", "c", "k", "i", "n", "g">>

ReferenceWord == <<"R", "e", "f", "e", "r", "e", "n", "c", "e">>

BarcodeWord == <<"B", "a", "r", "c", "o", "d", "e">>

\* The capture of the first rule, in the fixed order, that applies anywhere.
FirstTrackingRule(text) ==
  IF LabelledCodes(text, TrackingWord) # {}
  THEN Some(FirstLabelledCode(text, TrackingWord))
  ELSE IF LabelledCodes(text, ReferenceWord) # {}
  THEN Some(FirstLabelledCode(text, ReferenceWord))
  ELSE IF BareCodes(text) # {}
  THEN Some(SubSeq(text, Least(BareCodes(text)), Least(BareCodes(text)) + 12))
  ELSE IF LabelledDigits(text, BarcodeWord) # {}
  THEN LET i == Least(LabelledDigits(text, BarcodeWord))
       IN  Some(RunAt(text, GapEnd(text, i + Len(BarcodeWord), TrackingGap),
                      Digit))
  ELSE Absent

\* "Tracking: AB123456789GB"
ExampleTracking ==
  <<"T", "r", "a", "c", "k", "i", "n", "g", ":", " ",
    "A", "B", "1", "2", "3", "4", "5", "6", "7", "8", "9", "G", "B">>

ExampleCode ==
  <<"A", "B", "1", "2", "3", "4", "5", "6", "7", "8", "9", "G", "B">>

\* part occurs in text.
Contains(text, part) ==
  \E i \in 1..(Len(text) + 1) :
    /\ i + Len(part) - 1 <= Len(text)
    /\ SubSeq(text, i, i + Len(part) - 1) = part

Extracted == probe.fn = "extractConfirmation" /\ probe.done /\ ~probe.faulted

\* C16 as stated: the tracking number is the capture of the first rule, in
\* the order Tracking-labelled, Reference-labelled, bare code, Barcode-labelled
\* digits, that applies anywhere in the text, absent when none applies, and
\* every text containing "Tracking: AB123456789GB" yields "AB123456789GB".
C16_AnyTextContainingExample ==
  Extracted =>
    /\ probe.out.trackingNumber = FirstTrackingRule(probe.text)
    /\ Contains(probe.text, ExampleTracking)
         => probe.out.trackingNumber = Some(ExampleCode)

\* C16 amended: the tracking number is the capture of the first rule in the
\* fixed order that applies anywhere in the text, taken at that rule's
\* leftmost occurrence, and absent when none applies; a text whose leftmost
\* Tracking-labelled code is "Tracking: AB123456789GB" yields "AB123456789GB".
C16_FirstRuleLeftmostOccurrence ==
  Extracted =>
    /\ probe.out.trackingNumber = FirstTrackingRule(probe.text)
    /\ (LabelledCodes(probe.text, TrackingWord) # {}
          /\ LabelAt(probe.text,
                     Least(LabelledCodes(probe.text, TrackingWord)),
                     ExampleTracking))
         => probe.out.trackingNumber = Some(ExampleCode)
    /\ (/\ LabelledCodes(probe.text, TrackingWord) = {}
        /\ LabelledCodes(probe.text, ReferenceWord) = {}
        /\ BareCodes(probe.text) = {}
        /\ LabelledDigits(probe.text, BarcodeWord) = {})
         => ~probe.out.trackingNumber.present

\* A bare code stands before the Tracking-labelled one and the labelled one
\* is returned.
C16_Witness ==
  /\ Extracted
  /\ BareCodes(probe.text) # {}
  /\ LabelledCodes(probe.text, TrackingWord) # {}
  /\ Least(BareCodes(probe.text)) < Least(LabelledCodes(probe.text, TrackingWord))
  /\ probe.out.trackingNumber = Some(ExampleCode)

CostGap == {":"} \cup WhiteSpace

AmountChars == Digit \cup {".", ","}

\* Where the amount that follows the label at i starts, currency symbol
\* included when there is one.
AmountStart(text, i, w) == GapEnd(text, i + Len(w), CostGap)

\* Where its digits start.
DigitsStart(text, i, w) ==
  LET j == AmountStart(text, i, w)
  IN  IF j <= Len(text) /\ text[j] \in {"£", "$"} THEN j + 1 ELSE j

LabelledAmounts(text, w) ==
  {i \in 1..Len(text) :
     /\ LabelAt(text, i, w)
     /\ DigitsStart(text, i, w) <= Len(text)
     /\ text[DigitsStart(text, i, w)] \in AmountChars}

\* The leftmost amount labelled w, as it stands in the text.
FirstLabelledAmount(text, w) ==
  LET i == Least(LabelledAmounts(text, w))
  IN  SubSeq(text, AmountStart(text, i, w),
             GapEnd(text, DigitsStart(text, i, w), AmountChars) - 1)

BareAmounts(text) ==
  {i \in 1..Len(text) :
     text[i] = "£" /\ i + 1 <= Len(text) /\ text[i + 1] \in AmountChars}

TotalWord == <<"T", "o", "t", "a", "l">>

CostWord == <<"C", "o", "s", "t">>

PriceWord == <<"P", "r", "i", "c", "e">>

\* The amount of the first rule, in the fixed order, that applies anywhere,
\* as it appears in the text.
FirstCostRule(text) ==
  IF LabelledAmounts(text, TotalWord) # {}
  THEN Some(FirstLabelledAmount(text, TotalWord))
  ELSE IF LabelledAmounts(text, CostWord) # {}
  THEN Some(FirstLabelledAmount(text, CostWord))
  ELSE IF LabelledAmounts(text, PriceWord) # {}
  THEN Some(FirstLabelledAmount(text, PriceWord))
  ELSE IF BareAmounts(text) # {}
  THEN LET i == Least(BareAmounts(text))
       IN  Some(SubSeq(text, i, GapEnd(text, i + 1, AmountChars) - 1))
  ELSE Absent

\* C17: the cost is the amount of the first rule, in the order Total-labelled,
\* Cost-labelled, Price-labelled, bare currency-symbol amount, that applies,
\* as it appears in the text, and absent when none applies, whether or not a
\* tracking number was found.
C17_CostAsInText ==
  Extracted => probe.out.cost = FirstCostRule(probe.text)

----------------------------------------------------------------------------
(***************************************************************************)
(* The naming of the downloaded label, lines 807-828, on its own: the      *)
(* download event has arrived with a suggested filename.                   *)
(***************************************************************************)
\* LABEL_DIR, kept as one unit of the path.
LabelDir == <<"/home/USER/biz/shipping-labels">>

\* Fragments of download.suggestedFilename().
FileSegs ==
  { <<"l", "a", "b", "e", "l">>,
    <<"-">>,
    <<"A", "B", "1", "2", "3", "4", "5", "6", "7", "8", "9", "G", "B">>,
    <<"C", "D", "9", "8", "7", "6", "5", "4", "3", "2", "1", "G", "B">>,
    <<"c", "d", "9", "8", "7", "6", "5", "4", "3", "2", "1", "g", "b">>,
    <<"A">>,
    <<"B", "1", "2", "3", "4", "5", "6", "7", "8", "9", "G", "B">>,
    <<".", "p", "d", "f">> }

\* Date.now() as it is printed into the name.
Times ==
  { <<"1", "7">>,
    <<"1", "8">> }

\* Lines 811-828 with the code looked for in either case.
saveLabelAnyCase(suggestedFilename, now, saveFails) ==
  LET m == Match(suggestedFilename, TrackingCode(TRUE))
      trackingNumber == IF m.matched THEN m.capture
                        ELSE <<"l", "a", "b", "e", "l", "-">> \o now
      labelPath == LabelDir \o <<"/">> \o trackingNumber
                     \o <<".", "p", "d", "f">>
  IN  IF saveFails
      THEN [outcome |-> "error", saved |-> <<>>, labelPath |-> <<>>,
            trackingNumber |-> <<>>]
      ELSE [outcome |-> "success", saved |-> labelPath,
            labelPath |-> labelPath, trackingNumber |-> trackingNumber]

\* downloadLabel, lines 811-828 (and the catch, 829-836, when saveAs faults).
saveLabel(suggestedFilename, now, saveFails) ==
  LET m == Match(suggestedFilename, TrackingCode(FALSE))
      trackingNumber == IF m.matched THEN m.capture
                        ELSE <<"l", "a", "b", "e", "l", "-">> \o now
      labelPath == LabelDir \o <<"/">> \o trackingNumber
                     \o <<".", "p", "d", "f">>
  IN  IF saveFails
      THEN [outcome |-> "error", saved |-> <<>>, labelPath |-> <<>>,
            trackingNumber |-> <<>>]
      ELSE [outcome |-> "success", saved |-> labelPath,
            labelPath |-> labelPath, trackingNumber |-> trackingNumber]

SaveLabelInit ==
  /\ Constructed
  /\ probe \in {[fn |-> "saveLabel", suggestedFilename |-> f, now |-> t,
                 saveFails |-> x, done |-> FALSE,
                 out |-> [outcome |-> "none", saved |-> <<>>,
                          labelPath |-> <<>>, trackingNumber |-> <<>>]]
                  : f \in TextsOf(FileSegs), t \in Times, x \in BOOLEAN}

SaveLabel ==
  /\ probe.fn = "saveLabel"
  /\ ~probe.done
  /\ probe' = [probe EXCEPT
                 !.done = TRUE,
                 !.out = saveLabel(probe.suggestedFilename, probe.now,
                                   probe.saveFails)]
  /\ UNCHANGED <<desc, browsers, nextId, thisBrowser, last>>

SaveLabelSpec == SaveLabelInit /\ [][SaveLabel]_vars

\* The name the claim prescribes: the leftmost code in the suggested
\* filename, or a name made from the time.
PrescribedName(suggestedFilename, now) ==
  IF BareCodes(suggestedFilename) # {}
  THEN SubSeq(suggestedFilename, Least(BareCodes(suggestedFilename)),
              Least(BareCodes(suggestedFilename)) + 12)
  ELSE <<"l", "a", "b", "e", "l", "-">> \o now

\* C18: on a successful download the file is saved in the label directory as
\* <name>.pdf, where <name> is the code of two uppercase letters, nine digits
\* and GB found in the suggested filename, or a timestamp-based name when
\* there is none; the returned path is that file and the returned
\* trackingNumber is <name>.
C18_SavedUnderTrackingName ==
  probe.fn = "saveLabel" /\ probe.done /\ probe.out.outcome = "success" =>
    LET name == PrescribedName(probe.suggestedFilename, probe.now)
    IN  /\ probe.out.saved = LabelDir \o <<"/">> \o name
                               \o <<".", "p", "d", "f">>
        /\ probe.out.labelPath = probe.out.saved
        /\ probe.out.trackingNumber = name

\* A suggested filename holding only a lower-case code is saved under the
\* timestamp-based name.
C18_Witness ==
  /\ probe.fn = "saveLabel" /\ probe.done /\ probe.out.outcome = "success"
  /\ Contains(probe.suggestedFilename,
              <<"c", "d", "9", "8", "7", "6", "5", "4", "3", "2", "1", "g", "b">>)
  /\ BareCodes(probe.suggestedFilename) = {}
  /\ probe.out.trackingNumber = <<"l", "a", "b", "e", "l", "-">> \o probe.now

----------------------------------------------------------------------------
(***************************************************************************)
(* The preview of createLabel, lines 385-458, on its own: the form page is *)
(* open, the resolvers find some controls and miss others, no step faults. *)
(***************************************************************************)
\* undefined
Undefined == "<undefined>"

\* SERVICE_CODES, lines 47-54.
SERVICE_CODES ==
  [ TRACKED24 |-> "Royal Mail Tracked 24",
    TRACKED48 |-> "Royal Mail Tracked 48",
    SPECIALDELIVERY9 |-> "Special Delivery Guaranteed by 9am",
    SPECIALDELIVERY1 |-> "Special Delivery Guaranteed by 1pm",
    SIGNED |-> "Royal Mail Signed For 1st Class",
    SIGNED2 |-> "Royal Mail Signed For 2nd Class" ]

\* What an object literal inherits from Object.prototype.
ObjectPrototype ==
  {"constructor", "toString", "toLocaleString", "valueOf", "hasOwnProperty",
   "isPrototypeOf", "propertyIsEnumerable", "__proto__",
   "__defineGetter__", "__defineSetter__", "__lookupGetter__",
   "__lookupSetter__"}

\* The value of an inherited member: a function or object, not a string.
Inherited == "<member of Object.prototype>"

\* obj[key]
Get(obj, key) ==
  IF key \in DOMAIN obj THEN obj[key]
  ELSE IF key \in ObjectPrototype THEN Inherited
  ELSE Undefined

\* a || b
Or(a, b) == IF a \in {Undefined, ""} THEN b ELSE a

\* Requests the command line accepts (part_001, lines 14-30).
Requests ==
  [ name : {"Ann", "Bob"},
    company : {Undefined, "Acme"},
    address1 : {"1 High St"},
    address2 : {Undefined, "Flat 2"},
    city : {"Leeds"},
    postcode : {"LS1 1AA"},
    weight : {1, 2},
    service : {"TRACKED24", "SIGNED2", "PRIORITY", "constructor"},
    reference : {Undefined, "ORD-1"} ]

\* The controls a page may offer to the resolvers.
Controls == {"name", "company", "service", "reference"}

\* createLabel, lines 385-458: the fields the resolvers filled and the result.
preview(options, found) ==
  LET wanted == {"name"}
                  \cup (IF Or(options.company, Undefined) # Undefined
                        THEN {"company"} ELSE {})
                  \cup {"service"}
                  \cup (IF Or(options.reference, Undefined) # Undefined
                        THEN {"reference"} ELSE {})
  IN  [ outcome |-> "success",
        filled |-> wanted \cap found,
        formState |->
          [ name |-> options.name,
            company |-> options.company,
            address1 |-> options.address1,
            address2 |-> options.address2,
            city |-> options.city,
            postcode |-> options.postcode,
            weight |-> options.weight,
            service |-> Or(Get(SERVICE_CODES, options.service),
                           options.service),
            reference |-> options.reference ] ]

PreviewInit ==
  /\ Constructed
  /\ probe \in {[fn |-> "preview", options |-> o, found |-> f,
                 done |-> FALSE,
                 out |-> [outcome |-> "none", filled |-> {},
                          formState |-> o]]
                  : o \in Requests, f \in SUBSET Controls}

Preview ==
  /\ probe.fn = "preview"
  /\ ~probe.done
  /\ probe' = [probe EXCEPT
                 !.done = TRUE,
                 !.out = preview(probe.options, probe.found)]
  /\ UNCHANGED <<desc, browsers, nextId, thisBrowser, last>>

PreviewSpec == PreviewInit /\ [][Preview]_vars

\* C15: the preview of a successful createLabel repeats the request's name,
\* company, address1, address2, city, postcode, weight and reference, and its
\* service is the catalog display name of the requested code, or the raw code
\* when the code is not in the catalog, whatever controls the resolvers found.
C15_PreviewFromRequest ==
  probe.fn = "preview" /\ probe.done /\ probe.out.outcome = "success" =>
    LET o == probe.options
        f == probe.out.formState
    IN  /\ f.name = o.name /\ f.company = o.company
        /\ f.address1 = o.address1 /\ f.address2 = o.address2
        /\ f.city = o.city /\ f.postcode = o.postcode
        /\ f.weight = o.weight /\ f.reference = o.reference
        /\ f.service = IF o.service \in DOMAIN SERVICE_CODES
                       THEN SERVICE_CODES[o.service]
                       ELSE o.service

----------------------------------------------------------------------------
(***************************************************************************)
(* fillField, lines 470-533, on its own.  A page is a set of controls;     *)
(* each control answers to one synonym through one attribute or through a  *)
(* label.  page.$ returns the first match in document order, which the     *)
(* page decides: the operators below yield every outcome.                  *)
(***************************************************************************)
MaxSynonyms == 2

MaxControls == 2

\* The strategies of one synonym, in the order of lines 474-526.
Strategies == <<"aria", "placeholder", "label", "name", "id", "testid">>

\* The controls a page may hold: a select is never matched by the
\* input/textarea selectors, but a label may name one through its for
\* attribute.
ControlKinds ==
  {[syn |-> s, via |-> v, tag |-> g] :
     s \in 1..MaxSynonyms,
     v \in {"aria", "placeholder", "labelFor", "labelNear", "name", "id",
            "testid"},
     g \in {"input", "textarea"}}
    \cup {[syn |-> s, via |-> v, tag |-> "select"] :
            s \in 1..MaxSynonyms, v \in {"aria", "labelFor"}}

RECURSIVE PagesUpTo(_)
PagesUpTo(n) ==
  IF n = 0 THEN {{}}
  ELSE LET P == PagesUpTo(n - 1)
       IN  P \cup {p \cup {c} : p \in P, c \in ControlKinds}

NoFault == [syn |-> 0, at |-> "none"]

\* At most one step of the call faults: the first query of a synonym or the
\* fill made for it.
Faults ==
  {NoFault} \cup {[syn |-> s, at |-> a] :
                    s \in 1..MaxSynonyms, a \in {"query", "fill"}}

\* What the selector of one strategy matches, lines 474, 481, 488-500, 507,
\* 514, 521.
Find(page, syn, strategy) ==
  IF strategy = "label"
  THEN {c \in page : /\ c.syn = syn
                     /\ \/ c.via = "labelFor"
                        \/ c.via = "labelNear" /\ c.tag # "select"}
  ELSE {c \in page : c.syn = syn /\ c.via = strategy /\ c.tag # "select"}

\* A catch block that lets the fault go on to the caller.
catchVariantRethrown(acc) == [acc EXCEPT !.status = "threw"]

\* catch { /* continue to next variant */ }, lines 527-529.
catchVariant(acc) == [acc EXCEPT !.status = "next"]

\* A fill that is not followed by return: the walk goes on.
fillAndGoOn(acc, c, fault) ==
  LET tried == [acc EXCEPT !.attempts = Append(@, c)]
  IN  IF c.tag = "select" \/ (fault.syn = c.syn /\ fault.at = "fill")
      THEN catchVariant(tried)
      ELSE [tried EXCEPT !.fills = Append(@, c), !.status = "next"]

\* field.fill(value); return, e.g. lines 476-477: fill faults on a control
\* that is not an input or a textarea.
fill(acc, c, fault) ==
  LET tried == [acc EXCEPT !.attempts = Append(@, c)]
  IN  IF c.tag = "select" \/ (fault.syn = c.syn /\ fault.at = "fill")
      THEN catchVariant(tried)
      ELSE [tried EXCEPT !.fills = Append(@, c), !.status = "returned"]

RECURSIVE tryStrategies(_, _, _, _, _)
\* The body of the try block from strategy k on, lines 473-526.
tryStrategies(page, syn, k, fault, acc) ==
  IF k > Len(Strategies)
  THEN {[acc EXCEPT !.status = "next"]}
  ELSE LET looked == [acc EXCEPT
                        !.evaluated = Append(@, <<syn, Strategies[k]>>)]
           found == Find(page, syn, Strategies[k])
       IN  IF k = 1 /\ fault.syn = syn /\ fault.at = "query"
           THEN {catchVariant(looked)}
           ELSE IF found = {}
           THEN tryStrategies(page, syn, k + 1, fault, looked)
           ELSE {fill(looked, c, fault) : c \in found}

RECURSIVE fillFieldFrom(_, _, _, _, _)
\* for (const label of labelVariants), from the i-th synonym on.
fillFieldFrom(page, labelVariants, i, fault, acc) ==
  IF i > Len(labelVariants)
  THEN {[acc EXCEPT !.status = "returned"]}
  ELSE UNION { IF r.status = "next"
               THEN fillFieldFrom(page, labelVariants, i + 1, fault, r)
               ELSE {r}
               : r \in tryStrategies(page, labelVariants[i], 1, fault, acc) }

NotCalled ==
  [status |-> "none", fills |-> <<>>, attempts |-> <<>>, evaluated |-> <<>>]

\* fillField, lines 470-533.
fillField(page, labelVariants, fault) ==
  fillFieldFrom(page, labelVariants, 1, fault, NotCalled)

FillFieldInit ==
  /\ Constructed
  /\ probe \in {[fn |-> "fillField", page |-> p, fault |-> f,
                 labelVariants |-> [i \in 1..MaxSynonyms |-> i],
                 done |-> FALSE, out |-> NotCalled]
                  : p \in PagesUpTo(MaxControls), f \in Faults}

FillField ==
  /\ probe.fn = "fillField"
  /\ ~probe.done
  /\ \E r \in fillField(probe.page, probe.labelVariants, probe.fault) :
       probe' = [probe EXCEPT !.done = TRUE, !.out = r]
  /\ UNCHANGED <<desc, browsers, nextId, thisBrowser, last>>

FillFieldSpec == FillFieldInit /\ [][FillField]_vars

\* No strategy finds a control for any synonym.
NothingMatches(page, labelVariants) ==
  \A i \in DOMAIN labelVariants : \A k \in DOMAIN Strategies :
    Find(page, labelVariants[i], Strategies[k]) = {}

\* C19: fillField on a page where no strategy matches any synonym returns
\* normally and calls fill on no control; and whatever the page, a fault in
\* a query or a fill made for one synonym never reaches the caller.
C19_NoMatchNoFillNoThrow ==
  probe.fn = "fillField" /\ probe.done =>
    /\ probe.out.status = "returned"
    /\ NothingMatches(probe.page, probe.labelVariants)
         => probe.out.fills = <<>> /\ probe.out.attempts = <<>>

\* A page that holds a control no selector matches, a query that faults,
\* and a call that returned without filling.
C19_Witness ==
  /\ probe.fn = "fillField" /\ probe.done
  /\ probe.page # {}
  /\ NothingMatches(probe.page, probe.labelVariants)
  /\ probe.fault.at = "query"
  /\ probe.out.status = "returned"
  /\ probe.out.fills = <<>>

----------------------------------------------------------------------------
(***************************************************************************)
(* login, lines 217-339, step by step, once its page is acquired: what the *)
(* portal answers to each step is the input, the steps taken and the       *)
(* descriptor left behind are the result.                                  *)
(***************************************************************************)
\* What the portal and the browser answer during one login.
LoginEnvs ==
  [ verify : {"stays", "redirected", "faults"},           \* lines 223-225
    entry : {"ok", "gotoFaults", "screenshotFaults"},     \* lines 235-242
    email : {"found", "missing", "fillFaults"},           \* lines 256-267
    password : {"found", "missing", "fillFaults"},        \* lines 276-287
    button : {"found", "missing"},                        \* lines 307-318
    indicator : {"appears", "timeoutOnLogin", "timeoutElsewhere"} ]

\* The descriptors login can read.
LoginDescs ==
  {NoDesc} \cup {[SessionInfo(1, 1) EXCEPT !.loggedIn = l, !.formFilled = f]
                   : l \in BOOLEAN, f \in BOOLEAN}

\* The check of lines 218-232 that takes the flag at its word.
verifySessionTrusting(d, env) == d.exists /\ d.loggedIn

\* Lines 218-232: the flag is set and the order page did not redirect.
verifySession(d, env) ==
  d.exists /\ d.loggedIn /\ env.verify = "stays"

\* Lines 234-339 with loggedIn written as soon as the button is clicked.
authenticateStepsEager(d, env, before) ==
  LET fail(steps) == [result |-> "threw", steps |-> steps, desc |-> d]
      entered == before \o <<"gotoLogin">>
      shown == entered \o <<"screenshot">>
      withEmail == IF env.email = "found"
                   THEN shown \o <<"fillEmail">> ELSE shown
      withBoth == IF env.password = "found"
                  THEN withEmail \o <<"fillPassword">> ELSE withEmail
      clicked == IF env.button = "found"
                 THEN withBoth \o <<"clickLogin">> ELSE withBoth
      marked == updateSession(d, [loggedIn |-> TRUE])
  IN  IF env.entry = "gotoFaults" THEN fail(entered)
      ELSE IF env.entry = "screenshotFaults" THEN fail(shown)
      ELSE IF env.email # "found" \/ env.password # "found"
      THEN fail(withBoth \o <<"screenshot">>)
      ELSE IF env.indicator = "timeoutOnLogin"
      THEN [result |-> "threw", steps |-> clicked \o <<"wait", "screenshot">>,
            desc |-> marked]
      ELSE [result |-> "true", steps |-> clicked \o <<"wait", "updateSession">>,
            desc |-> marked]

\* login, lines 234-339: the authentication sequence after the steps before.
authenticateSteps(d, env, before) ==
  LET fail(steps) == [result |-> "threw", steps |-> steps, desc |-> d]
      entered == before \o <<"gotoLogin">>
      shown == entered \o <<"screenshot">>
      withEmail == IF env.email = "found"
                   THEN shown \o <<"fillEmail">> ELSE shown
      withBoth == IF env.password = "found"
                  THEN withEmail \o <<"fillPassword">> ELSE withEmail
      clicked == IF env.button = "found"
                 THEN withBoth \o <<"clickLogin">> ELSE withBoth
  IN  IF env.entry = "gotoFaults" THEN fail(entered)
      ELSE IF env.entry = "screenshotFaults" THEN fail(shown)
      ELSE IF env.email # "found" \/ env.password # "found"
      THEN fail(withBoth \o <<"screenshot">>)
      ELSE IF env.indicator = "timeoutOnLogin"
      THEN fail(clicked \o <<"wait", "screenshot">>)
      ELSE [result |-> "true", steps |-> clicked \o <<"wait", "updateSession">>,
            desc |-> updateSession(d, [loggedIn |-> TRUE])]

\* login, lines 217-339.
loginSteps(d, env) ==
  IF verifySession(d, env)
  THEN [result |-> "true", steps |-> <<"gotoOrders">>, desc |-> d]
  ELSE authenticateSteps(d, env,
                         IF d.exists /\ d.loggedIn THEN <<"gotoOrders">>
                         ELSE <<>>)

LoginInit ==
  /\ Constructed
  /\ probe \in {[fn |-> "login", desc |-> d, env |-> e, done |-> FALSE,
                 out |-> [result |-> "none", steps |-> <<>>, desc |-> d]]
                  : d \in LoginDescs, e \in LoginEnvs}

Login ==
  /\ probe.fn = "login"
  /\ ~probe.done
  /\ probe' = [probe EXCEPT !.done = TRUE,
                            !.out = loginSteps(probe.desc, probe.env)]
  /\ UNCHANGED <<desc, browsers, nextId, thisBrowser, last>>

LoginSpec == LoginInit /\ [][Login]_vars

\* step is among the steps taken.
Took(step) == \E i \in DOMAIN probe.out.steps : probe.out.steps[i] = step

LoggedInDone == probe.fn = "login" /\ probe.done

\* C21: login returns true without entering the authentication sequence only
\* if the descriptor shows loggedIn=true and the navigation to the order page
\* completed without a redirect to a login address; in every other case the
\* authentication sequence is entered, and it runs to its end unless one of
\* its own steps fails.
C21_FlagIsAdvisory ==
  LoggedInDone =>
    /\ ~Took("gotoLogin")
         <=> /\ probe.desc.exists /\ probe.desc.loggedIn
             /\ probe.env.verify = "stays"
    /\ ~Took("gotoLogin")
         => probe.out.result = "true" /\ probe.out.desc = probe.desc
    /\ (/\ Took("gotoLogin") /\ probe.env.entry = "ok"
        /\ probe.env.email = "found" /\ probe.env.password = "found"
        /\ probe.env.indicator # "timeoutOnLogin")
         => Took("fillEmail") /\ Took("fillPassword") /\ Took("updateSession")

\* The flag was true, the order page redirected to the login address, and
\* the whole authentication sequence ran.
C21_Witness ==
  /\ LoggedInDone
  /\ probe.desc.loggedIn /\ probe.env.verify = "redirected"
  /\ probe.out.steps = <<"gotoOrders", "gotoLogin", "screenshot", "fillEmail",
                         "fillPassword", "clickLogin", "wait", "updateSession">>
  /\ probe.out.result = "true"

----------------------------------------------------------------------------
\* The place of a (synonym, strategy) pair in the walk of fillField.
Rank(pair) ==
  pair[1] * Len(Strategies)
    + (CHOOSE k \in DOMAIN Strategies : Strategies[k] = pair[2])

FillFieldDone == probe.fn = "fillField" /\ probe.done

\* The pairs whose query runs and finds a control.
FindingPairs ==
  {<<s, Strategies[k]>> : s \in 1..Len(probe.labelVariants),
                          k \in DOMAIN Strategies}
    \cap {pr \in (1..MaxSynonyms) \X Range(Strategies) :
            /\ Find(probe.page, pr[1], pr[2]) # {}
            /\ ~(probe.fault.syn = pr[1] /\ probe.fault.at = "query")}

\* The pairs are evaluated in the order of the walk.
InWalkOrder ==
  \A i, j \in DOMAIN probe.out.evaluated :
    i < j => Rank(probe.out.evaluated[i]) < Rank(probe.out.evaluated[j])

\* A fill on c faults.
FillFaults(c) ==
  c.tag = "select" \/ (probe.fault.syn = c.syn /\ probe.fault.at = "fill")

\* C23 as stated: at most one fill per call, the pairs are walked in order,
\* the control filled is one found by the first pair in that order that
\* finds a control, and nothing is evaluated after a successful fill.
C23_FirstFindingPairFilled ==
  FillFieldDone =>
    /\ Len(probe.out.fills) <= 1
    /\ InWalkOrder
    /\ probe.out.fills # <<>> =>
         /\ \E pr \in FindingPairs :
              /\ \A q \in FindingPairs : Rank(pr) <= Rank(q)
              /\ probe.out.fills[1] \in Find(probe.page, pr[1], pr[2])
         /\ probe.out.fills[1]
              \in Find(probe.page,
                       probe.out.evaluated[Len(probe.out.evaluated)][1],
                       probe.out.evaluated[Len(probe.out.evaluated)][2])

\* C23 amended: at most one fill succeeds per call, the pairs are walked in
\* order, a fault abandons the rest of its synonym, the control filled is
\* one found by the first pair that is evaluated, finds a control and whose
\* fill does not fault, and nothing is evaluated after a successful fill.
C23_FirstSuccessfulPairFilled ==
  FillFieldDone =>
    /\ Len(probe.out.fills) <= 1
    /\ InWalkOrder
    /\ \A i \in DOMAIN probe.out.evaluated :
         LET pr == probe.out.evaluated[i]
             found == Find(probe.page, pr[1], pr[2])
         IN  i < Len(probe.out.evaluated) =>
               \* an earlier pair found nothing, or its synonym faulted and
               \* the walk went on with the next synonym
               \/ /\ found = {}
                  /\ ~(probe.fault.syn = pr[1] /\ probe.fault.at = "query")
                  /\ probe.out.evaluated[i + 1][1] = pr[1]
               \/ /\ \/ probe.fault.syn = pr[1] /\ probe.fault.at = "query"
                     \/ \E c \in found : FillFaults(c)
                  /\ probe.out.evaluated[i + 1] = <<pr[1] + 1, Strategies[1]>>
               \/ /\ found = {} /\ pr[2] = Strategies[Len(Strategies)]
                  /\ probe.out.evaluated[i + 1] = <<pr[1] + 1, Strategies[1]>>
    /\ probe.out.fills # <<>> =>
         LET pr == probe.out.evaluated[Len(probe.out.evaluated)]
         IN  /\ probe.out.fills[1] \in Find(probe.page, pr[1], pr[2])
             /\ ~FillFaults(probe.out.fills[1])
    /\ \A i \in DOMAIN probe.out.attempts :
         i < Len(probe.out.attempts) => FillFaults(probe.out.attempts[i])

\* The fill on the control found first faulted, and a control of a later
\* synonym was filled.
C23_Witness ==
  /\ FillFieldDone
  /\ Len(probe.out.attempts) = 2
  /\ probe.out.attempts[1].tag = "input"
  /\ probe.out.fills = <<probe.out.attempts[2]>>

\* C24: every control on which fillField calls fill is an input or a
\* textarea, whatever strategy found it, the label strategy with a for
\* attribute included.
C24_OnlyTextControlsFilled ==
  FillFieldDone =>
    \A i \in DOMAIN probe.out.attempts :
      probe.out.attempts[i].tag \in {"input", "textarea"}

----------------------------------------------------------------------------
(***************************************************************************)
(* selectService, lines 535-599, on its own: the page answers each of the  *)
(* queries and actions, the result is the list of steps tried and of       *)
(* actions that succeeded.                                                 *)
(***************************************************************************)
\* selectSelectors.length, line 541-547.
NumSelectSelectors == 5

\* What one dropdown selector leads to: no element (or a faulting query), an
\* element that takes the raw code, one that takes only the display name,
\* one that takes neither.
SelectOutcomes == {"none", "queryFaults", "byValue", "byLabel", "bothFail"}

\* What a click strategy leads to: no element, a click, a fault.
ClickOutcomes == {"none", "clicked", "faults"}

ServicePages ==
  [ selects : [1..NumSelectSelectors -> SelectOutcomes],
    radio : ClickOutcomes, tile : ClickOutcomes, label : ClickOutcomes ]

NotSelected == [status |-> "none", actions |-> <<>>, tried |-> <<>>]

\* Lines 549-564 with the second failure ending the call.
trySelectGivingUp(acc, i, outcome) ==
  LET queried == [acc EXCEPT !.tried = Append(@, <<"select", i>>)]
      act(a) == [queried EXCEPT !.actions = Append(@, <<a, i>>),
                                !.status = "returned"]
  IN  CASE outcome = "byValue" -> act("selectByValue")
        [] outcome = "byLabel" -> act("selectByLabel")
        [] outcome = "bothFail" -> [queried EXCEPT !.status = "returned"]
        [] OTHER -> [queried EXCEPT !.status = "next"]

\* Lines 549-564: one selector of the dropdown loop.
trySelect(acc, i, outcome) ==
  LET queried == [acc EXCEPT !.tried = Append(@, <<"select", i>>)]
      act(a) == [queried EXCEPT !.actions = Append(@, <<a, i>>),
                                !.status = "returned"]
  IN  CASE outcome = "byValue" -> act("selectByValue")
        [] outcome = "byLabel" -> act("selectByLabel")
        [] OTHER -> [queried EXCEPT !.status = "next"]

RECURSIVE selectLoop(_, _, _)
\* for (const selector of selectSelectors), from the i-th selector on.
selectLoop(acc, page, i) ==
  IF i > NumSelectSelectors
  THEN [acc EXCEPT !.status = "next"]
  ELSE LET r == trySelect(acc, i, page.selects[i])
       IN  IF r.status = "next" THEN selectLoop(r, page, i + 1) ELSE r

\* Methods 2-4, lines 566-598: page.$ and click inside a try of their own.
tryClick(acc, method, outcome) ==
  IF acc.status # "next"
  THEN acc
  ELSE LET queried == [acc EXCEPT !.tried = Append(@, <<method, 0>>)]
       IN  IF outcome = "clicked"
           THEN [queried EXCEPT !.actions = Append(@, <<method, 0>>),
                                !.status = "returned"]
           ELSE queried

\* selectService, lines 535-599.
selectService(page) ==
  LET dropdown == selectLoop(NotSelected, page, 1)
      radio == tryClick(dropdown, "radio", page.radio)
      tile == tryClick(radio, "tile", page.tile)
      label == tryClick(tile, "label", page.label)
  IN  [label EXCEPT !.status = "returned"]

SelectServiceInit ==
  /\ Constructed
  /\ probe \in {[fn |-> "selectService", page |-> p, done |-> FALSE,
                 out |-> NotSelected] : p \in ServicePages}

SelectService ==
  /\ probe.fn = "selectService"
  /\ ~probe.done
  /\ probe' = [probe EXCEPT !.done = TRUE, !.out = selectService(probe.page)]
  /\ UNCHANGED <<desc, browsers, nextId, thisBrowser, last>>

SelectServiceSpec == SelectServiceInit /\ [][SelectService]_vars

SelectServiceDone == probe.fn = "selectService" /\ probe.done

\* The place of a step in the order dropdown, radio, tile, label.
MethodRank(step) ==
  CASE step[1] = "select" -> step[2]
    [] step[1] = "radio" -> NumSelectSelectors + 1
    [] step[1] = "tile" -> NumSelectSelectors + 2
    [] step[1] = "label" -> NumSelectSelectors + 3

\* The steps that would succeed on the page, by their place in the order.
Succeeding(page) ==
  {i \in 1..NumSelectSelectors : page.selects[i] \in {"byValue", "byLabel"}}
    \cup (IF page.radio = "clicked" THEN {NumSelectSelectors + 1} ELSE {})
    \cup (IF page.tile = "clicked" THEN {NumSelectSelectors + 2} ELSE {})
    \cup (IF page.label = "clicked" THEN {NumSelectSelectors + 3} ELSE {})

\* C25: selectService returns normally with at most one successful selection
\* or click; it tries dropdown (raw code, then display name), radio, tile and
\* label in that order; the action done is the first in that order that
\* succeeds and nothing is tried after it; a dropdown on which both
\* selections fail does not stop the later strategies; and when nothing
\* matches no action is done.
C25_FirstServiceActionWins ==
  SelectServiceDone =>
    LET out == probe.out
        ok == Succeeding(probe.page)
    IN  /\ out.status = "returned"
        /\ Len(out.actions) <= 1
        /\ \A i \in DOMAIN out.tried : MethodRank(out.tried[i]) = i
        /\ ok = {} => /\ out.actions = <<>>
                      /\ Len(out.tried) = NumSelectSelectors + 3
        /\ ok # {} =>
             /\ Len(out.actions) = 1
             /\ Len(out.tried) = Least(ok)
             /\ out.actions[1][2] = out.tried[Len(out.tried)][2]
             /\ out.actions[1][1] =
                  IF Least(ok) > NumSelectSelectors
                  THEN out.tried[Len(out.tried)][1]
                  ELSE IF probe.page.selects[Least(ok)] = "byValue"
                       THEN "selectByValue" ELSE "selectByLabel"

\* A dropdown refused both the code and the display name, and the radio
\* button was clicked.
C25_Witness ==
  /\ SelectServiceDone
  /\ probe.page.selects[1] = "bothFail"
  /\ probe.out.actions = << <<"radio", 0>> >>

----------------------------------------------------------------------------
(***************************************************************************)
(* The body of submit, lines 624-704, step by step.  Each loop meets the   *)
(* controls its selectors match, in list order; a control is clicked, or   *)
(* its query or click faults (swallowed by the loop), or, in the second    *)
(* stage, it is clicked and the wait after the click faults (swallowed     *)
(* too).  The page changes with every click.                               *)
(***************************************************************************)
\* Number of controls the first-stage selectors can match.
MaxSubmitControls == 2

RECURSIVE SeqsUpTo(_, _)
\* The sequences over S of length at most n.
SeqsUpTo(S, n) ==
  IF n = 0 THEN {<<>>}
  ELSE LET Q == SeqsUpTo(S, n - 1)
       IN  Q \cup {Append(q, x) : q \in Q, x \in S}

SubmitEnvs ==
  [ first : SeqsUpTo({"clicked", "faults"}, MaxSubmitControls),
    settle : {"ok", "faults"},                              \* lines 649-650
    review : {"ok", "faults"},                              \* line 654
    confirm : SeqsUpTo({"clicked", "faults", "waitFaults"},
                       MaxConfirmClicks),
    final : {"ok", "faults"} ]                              \* line 681

\* The descriptors that pass the check of lines 613-622.
SubmitDescs ==
  {NoDesc} \cup {[SessionInfo(1, 1) EXCEPT !.loggedIn = TRUE,
                                           !.formFilled = TRUE,
                                           !.labelGenerated = g]
                   : g \in BOOLEAN}

Started(d) ==
  [outcome |-> "running", status |-> "looping", clicks |-> <<>>,
   steps |-> <<>>, pageRead |-> 0, desc |-> d]

\* A click: the page moves on.
Clicked(acc, kind) ==
  [acc EXCEPT !.clicks = Append(@, kind), !.steps = Append(@, kind)]

RECURSIVE firstStage(_, _, _)
\* Lines 638-646: click the first control that can be clicked, then break.
firstStage(acc, outcomes, i) ==
  IF i > Len(outcomes) THEN acc
  ELSE IF outcomes[i] = "clicked" THEN Clicked(acc, "submit")
  ELSE firstStage(acc, outcomes, i + 1)

\* Lines 667-677 without the break after the waits.
confirmControlNoBreak(acc, outcome) ==
  CASE outcome = "clicked" -> Clicked(acc, "confirm")
    [] outcome = "waitFaults" -> Clicked(acc, "confirm")
    [] OTHER -> acc

\* Lines 667-677: one control of the second stage.
confirmControl(acc, outcome) ==
  CASE outcome = "clicked" ->
         [Clicked(acc, "confirm") EXCEPT !.status = "broke"]
    [] outcome = "waitFaults" -> Clicked(acc, "confirm")
    [] OTHER -> acc

RECURSIVE secondStage(_, _, _)
\* Lines 666-678.
secondStage(acc, outcomes, i) ==
  IF i > Len(outcomes) THEN acc
  ELSE LET r == confirmControl(acc, outcomes[i])
       IN  IF r.status = "broke" THEN r
           ELSE secondStage(r, outcomes, i + 1)

\* Lines 696-704.
submitFailed(acc) ==
  [acc EXCEPT !.outcome = "error", !.steps = Append(@, "errorScreenshot")]

\* submit, lines 624-704.
submitSteps(d, env) ==
  LET first == firstStage(Started(d), env.first, 1)
      settled == [first EXCEPT !.steps = Append(@, "wait")]
      reviewed == [settled EXCEPT !.steps = Append(@, "screenshot")]
      second == secondStage(reviewed, env.confirm, 1)
      shown == [second EXCEPT !.steps = Append(@, "screenshot")]
      extracted == [shown EXCEPT !.steps = Append(@, "extract"),
                                 !.pageRead = Len(shown.clicks)]
  IN  IF env.settle = "faults" THEN submitFailed(settled)
      ELSE IF env.review = "faults" THEN submitFailed(reviewed)
      ELSE IF env.final = "faults" THEN submitFailed(shown)
      ELSE [extracted EXCEPT
              !.outcome = "success",
              !.desc = updateSession(@, [labelGenerated |-> TRUE])]

SubmitStepsInit ==
  /\ Constructed
  /\ probe \in {[fn |-> "submit", desc |-> d, env |-> e, done |-> FALSE,
                 out |-> Started(d)] : d \in SubmitDescs, e \in SubmitEnvs}

SubmitSteps ==
  /\ probe.fn = "submit"
  /\ ~probe.done
  /\ probe' = [probe EXCEPT !.done = TRUE,
                            !.out = submitSteps(probe.desc, probe.env)]
  /\ UNCHANGED <<desc, browsers, nextId, thisBrowser, last>>

SubmitStepsSpec == SubmitStepsInit /\ [][SubmitSteps]_vars

\* No browser step of the submit faults.
SubmitFaultless ==
  /\ \A i \in DOMAIN probe.env.first : probe.env.first[i] = "clicked"
  /\ \A i \in DOMAIN probe.env.confirm : probe.env.confirm[i] = "clicked"
  /\ probe.env.settle = "ok" /\ probe.env.review = "ok"
  /\ probe.env.final = "ok"

\* C26: a submit whose precondition holds and whose browser steps do not
\* fault clicks at most one first-stage control and then at most one
\* second-stage control, returns success and sets labelGenerated=true whether
\* or not a second-stage control was found, and extracts the confirmation
\* from the page as it is after the last click.
C26_TwoStageSubmit ==
  (/\ probe.fn = "submit" /\ probe.done
   /\ probe.desc.exists /\ probe.desc.formFilled
   /\ SubmitFaultless) =>
    /\ probe.out.clicks =
         (IF probe.env.first = <<>> THEN <<>> ELSE <<"submit">>)
           \o (IF probe.env.confirm = <<>> THEN <<>> ELSE <<"confirm">>)
    /\ probe.out.outcome = "success"
    /\ probe.out.desc = [probe.desc EXCEPT !.labelGenerated = TRUE]
    /\ probe.out.pageRead = Len(probe.out.clicks)
    /\ \A i, j \in DOMAIN probe.out.steps :
         probe.out.steps[i] = "extract"
           /\ probe.out.steps[j] \in {"submit", "confirm"} => j < i

\* Two second-stage controls match and only the first of them is clicked,
\* after the first-stage control.
C26_Witness ==
  /\ probe.fn = "submit" /\ probe.done
  /\ probe.desc.exists /\ probe.desc.formFilled /\ ~probe.desc.labelGenerated
  /\ SubmitFaultless
  /\ Len(probe.env.confirm) = 2
  /\ probe.out.clicks = <<"submit", "confirm">>
  /\ probe.out.desc.labelGenerated

----------------------------------------------------------------------------
\* C27: a downloadLabel arms its listener before it clicks, clicks at most
\* one download control, ends with a failure result that carries a
\* diagnostic image whenever its check passed on labelGenerated=true and no
\* file was saved, and leaves every descriptor flag as it was.
C27_DownloadFailsWithImage ==
  [][ Invoked("downloadLabel") =>
        /\ Len(last'.clicks) <= 1
        /\ last'.clicks # <<>> => "listen" \in last'.touch
        /\ last'.gate = "flagTrue" /\ "save" \notin last'.touch
             => last'.outcome = "error" /\ last'.shot
        /\ desc.exists /\ desc'.exists
             => \A f \in Flags : desc'[f] = desc[f] ]_vars

----------------------------------------------------------------------------
\* C28: in every reachable descriptor the flags are ordered by stage:
\* labelGenerated=true implies formFilled=true, and formFilled=true implies
\* loggedIn=true.
C28_FlagsOrderedByStage ==
  /\ desc.labelGenerated => desc.formFilled
  /\ desc.formFilled => desc.loggedIn

\* A download that succeeded on a descriptor with all three flags true.
C28_Witness ==
  /\ last.op = "downloadLabel" /\ last.outcome = "success"
  /\ desc.exists /\ desc.loggedIn /\ desc.formFilled /\ desc.labelGenerated

\* C29: in a createLabel invocation that reaches login, the page on which
\* login works is the page on which createLabel then fills the form, and the
\* invocation launches at most one browser, whatever the starting state.
C29_OnePagePerFill ==
  [][ Invoked("createLabel") /\ last'.loginPage # 0
      => last'.loginPage = last'.formPage /\ last'.launched <= 1 ]_vars

\* The invocation stayed on the session of the descriptor it started with.
SameSession ==
  desc.exists /\ desc'.exists /\ desc'.wsEndpoint = desc.wsEndpoint
    /\ ~last'.cold

\* C30: on one session the gates are levels that nothing consumes: a
\* createLabel leaves labelGenerated as it was, a successful submit leaves
\* formFilled as it was, a submit on formFilled=true passes its check again
\* after an earlier submit, and a downloadLabel on labelGenerated=true passes
\* its check although the last invocation was a createLabel.
C30_GatesAreLevels ==
  [][ /\ Invoked("createLabel") /\ SameSession
         => desc'.labelGenerated = desc.labelGenerated
      /\ Invoked("submit") /\ SameSession /\ last'.outcome = "success"
         => desc'.formFilled = desc.formFilled
      /\ (/\ Invoked("submit") /\ SameSession
          /\ last.op = "submit" /\ last.outcome = "success"
          /\ desc.formFilled)
         => PastGate(last') /\ last'.gate = "flagTrue"
      /\ (/\ Invoked("downloadLabel") /\ SameSession
          /\ last.op = "createLabel" /\ last.outcome = "success"
          /\ desc.labelGenerated)
         => PastGate(last') /\ last'.gate = "flagTrue" ]_vars

\* A createLabel that succeeded on the session of an earlier fill and
\* submit: labelGenerated is still true, and a download would pass.
C30_Witness ==
  /\ last.op = "createLabel" /\ last.outcome = "success" /\ ~last.cold
  /\ last.preBrowser = "live" /\ last.launched = 0
  /\ desc.formFilled /\ desc.labelGenerated

====
